---- MODULE Spec2Model ----
(***************************************************************************)
(* tailr (src/tailr/src/lib.rs): offset parsing (parse_num), offset        *)
(* resolution (get_start_index) and the extraction loop of run.            *)
(* commr (src/commr/src/lib.rs): the merge loop of run.                    *)
(*                                                                         *)
(* i64 is modelled at a reduced width of IntBits bits (two's complement),  *)
(* so that the extreme values i64::MIN and i64::MAX are reachable inputs.  *)
(* A byte is one of the strings of Bytes; a text is a sequence of them.    *)
(***************************************************************************)
EXTENDS Integers, Sequences, FiniteSets, TLC

\* ---------------------------------------------------------------- bounds
\* width of the modelled i64
IntBits == 8
\* longest offset token given to parse_num
MaxTokLen == 4
\* most lines in an input of commr
MaxLines == 3
\* longest file content, in bytes
MaxFileLen == 4
\* largest count written on the command line of a run
MaxCount == 5

\* ------------------------------------------------------------ i64 / u64
Pow2(k) == 2 ^ k

\* i64::MAX and i64::MIN at the modelled width
I64_MAX == Pow2(IntBits - 1) - 1

I64_MIN == 0 - Pow2(IntBits - 1)

I64 == I64_MIN .. I64_MAX

\* an i64 result of + or -, wrapped to the width (two's complement)
WrapI64(x) == ((x - I64_MIN) % Pow2(IntBits)) + I64_MIN

\* `x as u64`: the value modulo 2^width
AsU64(x) == x % Pow2(IntBits)

\* ------------------------------------------------------------ TakeValue
PlusZero == [tag |-> "PlusZero"]

TakeNum(n) == [tag |-> "TakeNum", n |-> n]

TakeValue == {PlusZero} \cup {TakeNum(n) : n \in I64}

\* Option<T>: None is the empty sequence, Some(x) the one-element sequence
None == << >>

Some(x) == << x >>

\* Result<T, Box<dyn Error>>
Ok(v) == [ok |-> TRUE, val |-> v]

Err(e) == [ok |-> FALSE, err |-> e]

\* ------------------------------------------------------------ parse_num
DigitChars == << "0", "1", "2", "3", "4", "5", "6", "7", "8", "9" >>

IsDigit(c) == \E i \in 1 .. Len(DigitChars) : DigitChars[i] = c

\* char::to_digit(10) of a digit character
DigitVal(c) == (CHOOSE i \in 1 .. Len(DigitChars) : DigitChars[i] = c) - 1

\* the characters a token is made of: digits, the two signs, and two
\* characters that are neither ("." as in 3.14, "f" as in foo)
TokChars == {DigitChars[i] : i \in 1 .. Len(DigitChars)} \cup {"+", "-", ".", "f"}

SeqsUpTo(S, n) == UNION {[1 .. k -> S] : k \in 0 .. n}

Tokens == SeqsUpTo(TokChars, MaxTokLen)

\* the digit loop of <i64 as FromStr>::from_str: acc*10 +/- digit, each
\* step checked against the range
RECURSIVE AccumDigits(_, _, _)
AccumDigits(digits, acc, positive) ==
  IF digits = << >> THEN Ok(acc)
  ELSE IF ~IsDigit(Head(digits)) THEN Err("InvalidDigit")
  ELSE LET m == acc * 10
           x == DigitVal(Head(digits))
           r == IF positive THEN m + x ELSE m - x
       IN  IF m > I64_MAX \/ m < I64_MIN THEN
             Err(IF positive THEN "PosOverflow" ELSE "NegOverflow")
           ELSE IF r > I64_MAX \/ r < I64_MIN THEN
             Err(IF positive THEN "PosOverflow" ELSE "NegOverflow")
           ELSE AccumDigits(Tail(digits), r, positive)

\* val.parse::<i64>()
ParseI64(src) ==
  IF src = << >> THEN Err("Empty")
  ELSE IF Head(src) \in {"+", "-"} /\ Len(src) = 1 THEN Err("InvalidDigit")
  ELSE IF Head(src) = "+" THEN AccumDigits(Tail(src), 0, TRUE)
  ELSE IF Head(src) = "-" THEN AccumDigits(Tail(src), 0, FALSE)
  ELSE AccumDigits(src, 0, TRUE)

\* val.starts_with('+')
StartsWithPlus(v) == v # << >> /\ Head(v) = "+"

\* the closure given to .then(): the token began with '+'
WithPlus(n) == IF n = 0 THEN PlusZero ELSE TakeNum(n)

\* faulty variants of WithoutPlus: the sign kept as parsed; the negation saturated
\* to the minimum at the maximum magnitude
WithoutPlus_keep_sign(n) == TakeNum(n)

WithoutPlus_saturate(n) ==
  IF n = I64_MAX THEN TakeNum(I64_MIN)
  ELSE IF n > 0 THEN TakeNum(WrapI64(0 - n)) ELSE TakeNum(n)

\* the closure given to .or_else(): no '+' was written
WithoutPlus(n) == IF n > 0 THEN TakeNum(WrapI64(0 - n)) ELSE TakeNum(n)

\* faulty variant of parse_num: a token that does not parse counts as zero
parse_num_default(v) ==
  LET r == ParseI64(v)
  IN  IF r.ok THEN Ok(IF StartsWithPlus(v) THEN WithPlus(r.val) ELSE WithoutPlus(r.val))
      ELSE Ok(TakeNum(0))

parse_num(v) ==
  LET r == ParseI64(v)
  IN  IF r.ok THEN Ok(IF StartsWithPlus(v) THEN WithPlus(r.val) ELSE WithoutPlus(r.val))
      ELSE Err(v)

\* ------------------------------------------------------ get_start_index
\* faulty variant of StartPlusZero: an empty extent is given a start too
StartPlusZero_ge(t) == IF t >= 0 THEN Some(0) ELSE None

\* the PlusZero arm
StartPlusZero(t) == IF t > 0 THEN Some(0) ELSE None

\* faulty variant of StartPositive: the boundary n = total is taken as past the end
StartPositive_ge(n, t) == IF n >= t THEN None ELSE Some(AsU64(n - 1))

\* faulty variant of StartPositive: the 1-based count is not turned into a
\* 0-based index
StartPositive_onebased(n, t) == IF n > t THEN None ELSE Some(AsU64(n))

\* the arm of a positive TakeNum
StartPositive(n, t) == IF n > t THEN None ELSE Some(AsU64(n - 1))

\* faulty variant of StartNegative: the negative sum is cast without the clamp
StartNegative_noclamp(n, t) == Some(AsU64(WrapI64(t + n)))

\* the arm of a negative TakeNum
StartNegative(n, t) ==
  LET res == WrapI64(t + n)
  IN  IF res < 0 THEN Some(0) ELSE Some(AsU64(res))

\* faulty variant of get_start_index: the zero test is missing, so TakeNum(0)
\* falls into the arm of the negative counts
get_start_index_nozero(tv, t) ==
  IF tv = PlusZero THEN StartPlusZero(t)
  ELSE IF tv.n > 0 THEN StartPositive(tv.n, t)
  ELSE StartNegative(tv.n, t)

get_start_index(tv, t) ==
  IF tv = PlusZero THEN StartPlusZero(t)
  ELSE IF tv.n = 0 THEN None
  ELSE IF tv.n > 0 THEN StartPositive(tv.n, t)
  ELSE StartNegative(tv.n, t)

\* ------------------------------------------------------- files and text
\* The bytes a file is made of: an ASCII letter, the end-of-line marker,
\* the lead byte of a two-byte UTF-8 character and a continuation byte.
\* "C3" "A9" is one well-formed character; a "C3" without its "A9" and an
\* "A9" on its own are malformed.
Bytes == {"a", "LF", "C3", "A9"}

Contents == SeqsUpTo(Bytes, MaxFileLen)

\* a directory entry: a regular file with its content, a directory (open
\* succeeds, every read fails) or a name that cannot be opened
FileEntries(name) ==
  {[name |-> name, kind |-> "file", data |-> d] : d \in Contents}
    \cup {[name |-> name, kind |-> k, data |-> << >>] : k \in {"dir", "missing"}}

\* std::str::from_utf8(..).is_ok() on the modelled bytes
RECURSIVE Utf8Valid(_)
Utf8Valid(b) ==
  IF b = << >> THEN TRUE
  ELSE IF Head(b) \in {"a", "LF"} THEN Utf8Valid(Tail(b))
  ELSE IF Head(b) = "C3" THEN Len(b) >= 2 /\ b[2] = "A9" /\ Utf8Valid(Tail(Tail(b)))
  ELSE FALSE

\* U+FFFD REPLACEMENT CHARACTER in UTF-8
Replacement == << "EF", "BF", "BD" >>

\* faulty variant of from_utf8_lossy: malformed bytes are dropped
RECURSIVE from_utf8_lossy_drop(_)
from_utf8_lossy_drop(b) ==
  IF b = << >> THEN << >>
  ELSE IF Head(b) \in {"a", "LF"} THEN << Head(b) >> \o from_utf8_lossy_drop(Tail(b))
  ELSE IF Head(b) = "C3" /\ Len(b) >= 2 /\ b[2] = "A9" THEN
         << "C3", "A9" >> \o from_utf8_lossy_drop(Tail(Tail(b)))
  ELSE from_utf8_lossy_drop(Tail(b))

\* String::from_utf8_lossy: every malformed sequence becomes U+FFFD
RECURSIVE from_utf8_lossy(_)
from_utf8_lossy(b) ==
  IF b = << >> THEN << >>
  ELSE IF Head(b) \in {"a", "LF"} THEN << Head(b) >> \o from_utf8_lossy(Tail(b))
  ELSE IF Head(b) = "C3" /\ Len(b) >= 2 /\ b[2] = "A9" THEN
         << "C3", "A9" >> \o from_utf8_lossy(Tail(Tail(b)))
  ELSE Replacement \o from_utf8_lossy(Tail(b))

\* the offset just past the line that begins at offset pos: past the first
\* end-of-line marker, or the end of the data
RECURSIVE LineEnd(_, _)
LineEnd(data, pos) ==
  IF pos >= Len(data) THEN Len(data)
  ELSE IF data[pos + 1] = "LF" THEN pos + 1
  ELSE LineEnd(data, pos + 1)

\* BufRead::read_line at offset pos of an open file: the bytes up to and
\* including the next end-of-line marker, appended to the (cleared) line;
\* an error when the read fails or the bytes are not UTF-8
read_line(f, pos) ==
  LET chunk == SubSeq(f.data, pos + 1, LineEnd(f.data, pos))
  IN  IF f.kind # "file" THEN Err(<< "IsADirectory" >>)
      ELSE IF ~Utf8Valid(chunk) THEN Err(<< "InvalidData" >>)
      ELSE Ok([bs |-> Len(chunk), line |-> chunk])

\* seek(SeekFrom::Start(at)) followed by read_to_end
read_from(f, at) ==
  IF f.kind # "file" THEN Err(<< "IsADirectory" >>)
  ELSE Ok(SubSeq(f.data, at + 1, Len(f.data)))

\* the () of Ok(())
Unit == << >>

\* ---------------------------------------------------------- command line
\* the default of --lines
DefaultLines == << "1", "0" >>

\* n.to_string() of an i64
RECURSIVE NatToString(_)
NatToString(n) ==
  IF n < 10 THEN << DigitChars[n + 1] >>
  ELSE NatToString(n \div 10) \o << DigitChars[(n % 10) + 1] >>

to_string(n) == IF n < 0 THEN << "-" >> \o NatToString(0 - n) ELSE NatToString(n)

\* the offset tokens of a run: a count written bare, with '+' or with '-',
\* and one token that is no number
RunTokens ==
  {sign \o to_string(k) : sign \in {<< >>, << "+" >>, << "-" >>}, k \in 0 .. MaxCount}
    \cup {<< "f" >>}

\* ------------------------------------------------------------------ commr
\* (src/commr/src/lib.rs) A line is a sequence of characters without its
\* end-of-line marker; the characters, in the order of their bytes
CharOrder == << "A", "a", "b" >>

CharRank(c) == CHOOSE i \in 1 .. Len(CharOrder) : CharOrder[i] = c

\* the lines an input is made of
LineSet == {<< "A" >>, << "a" >>, << "a", "b" >>}

\* String::cmp: lexicographic on the bytes
RECURSIVE Cmp(_, _)
Cmp(x, y) ==
  IF x = << >> /\ y = << >> THEN "Equal"
  ELSE IF x = << >> THEN "Less"
  ELSE IF y = << >> THEN "Greater"
  ELSE IF CharRank(Head(x)) < CharRank(Head(y)) THEN "Less"
  ELSE IF CharRank(Head(x)) > CharRank(Head(y)) THEN "Greater"
  ELSE Cmp(Tail(x), Tail(y))

\* String::to_lowercase
to_lowercase(line) == [i \in 1 .. Len(line) |-> IF line[i] = "A" THEN "a" ELSE line[i]]

\* the closure `case` of run
case(insensitive, line) == IF insensitive THEN to_lowercase(line) ELSE line

\* .map(case) over the lines of an input
CaseAll(insensitive, ls) == [i \in 1 .. Len(ls) |-> case(insensitive, ls[i])]

\* columns.join(&config.delimiter)
RECURSIVE Join(_, _)
Join(columns, delimiter) ==
  IF columns = << >> THEN << >>
  ELSE IF Len(columns) = 1 THEN columns[1]
  ELSE columns[1] \o << delimiter >> \o Join(Tail(columns), delimiter)

Col(n, v) == [col |-> n, val |-> v]

\* the vector `columns` built by the closure `print` of run
Columns(cfg, c) ==
  IF c.col = 1 THEN
    IF cfg.show_col1 THEN << c.val >> ELSE << >>
  ELSE IF c.col = 2 THEN
    IF cfg.show_col2
      THEN (IF cfg.show_col1 THEN << << >> >> ELSE << >>) \o << c.val >>
      ELSE << >>
  ELSE
    IF cfg.show_col3
      THEN (IF cfg.show_col1 THEN << << >> >> ELSE << >>)
             \o (IF cfg.show_col2 THEN << << >> >> ELSE << >>) \o << c.val >>
      ELSE << >>

\* the rows on standard output after print(c)
PrintCol(cfg, out, c) ==
  IF Columns(cfg, c) # << >> THEN Append(out, Join(Columns(cfg, c), cfg.delimiter))
  ELSE out

\* Iterator::next on what the iterator still holds
NextLine(ls) == IF ls = << >> THEN None ELSE Some(Head(ls))

Rest(ls) == IF ls = << >> THEN << >> ELSE Tail(ls)

\* the lines are in non-decreasing order
IsSorted(ls) == \A i \in 1 .. Len(ls) - 1 : Cmp(ls[i], ls[i + 1]) # "Greater"

\* ---------------------------------------------------------------- state
VARIABLES
  val,        \* parse_num's argument
  parsed,     \* parse_num's result, NotYet before the call
  take_val,   \* get_start_index's first argument
  total,      \* get_start_index's second argument
  start,      \* get_start_index's result, NotYet before the call
  args,       \* the command line: --lines, --bytes, --quiet
  fs,         \* the files named on the command line, in order
  config,     \* the Config built by get_args
  pc,         \* where the program is
  file_num,   \* run: the index of the file being processed, from 1
  cnt,        \* count_lines_bytes: offset read so far, lines, bytes
  totals,     \* run: (total_lines, total_bytes) of the file
  ext,        \* print_lines: offset read so far, lines, start_index
  stdout,     \* bytes written to standard output
  stderr,     \* names of the files reported on standard error
  result,     \* what the program returned, NotYet while it runs
  c_config,   \* commr: the Config
  c_files,    \* commr: the lines of the two inputs, and whether each opens
  c_iter,     \* commr: lines1, lines2 (what the iterators still hold), line1, line2
  c_cols,     \* commr: the Column values given to print, in order
  c_out,      \* commr: the rows written to standard output
  c_loops,    \* commr: turns of the while loop taken
  c_pc,       \* commr: where run is
  c_result    \* commr: what run returned, NotYet while it runs

commvars == << c_config, c_files, c_iter, c_cols, c_out, c_loops, c_pc, c_result >>

callvars == << val, parsed, take_val, total, start, commvars >>

runvars ==
  << args, fs, config, pc, file_num, cnt, totals, ext, stdout, stderr, result >>

vars == << callvars, runvars >>

\* a result not yet computed / the result x of a finished call
NotYet == << >>

Returned(x) == << x >>

\* --------------------------------------------- parse_num on its own
\* the program is not running
RunIdle ==
  /\ args = [lines |-> DefaultLines, bytes |-> None, quiet |-> FALSE]
  /\ fs = << >>
  /\ config = NotYet
  /\ pc = "idle"
  /\ file_num = 1
  /\ cnt = [pos |-> 0, lines |-> 0, bytes |-> 0]
  /\ totals = [lines |-> 0, bytes |-> 0]
  /\ ext = [pos |-> 0, lines |-> 0, start_index |-> 0]
  /\ stdout = << >>
  /\ stderr = << >>
  /\ result = NotYet

\* commr is not running
CommIdle ==
  /\ c_config = [show_col1 |-> TRUE, show_col2 |-> TRUE, show_col3 |-> TRUE,
                 insensitive |-> FALSE, delimiter |-> "TAB"]
  /\ c_files = << >>
  /\ c_iter = [lines1 |-> << >>, lines2 |-> << >>, line1 |-> None, line2 |-> None]
  /\ c_cols = << >>
  /\ c_out = << >>
  /\ c_loops = 0
  /\ c_pc = "idle"
  /\ c_result = NotYet

\* no call of parse_num or get_start_index on its own
CallIdle ==
  /\ val = << >>
  /\ parsed = NotYet
  /\ take_val = PlusZero
  /\ total = 0
  /\ start = NotYet
  /\ CommIdle

InitParse ==
  /\ val \in Tokens
  /\ parsed = NotYet
  /\ take_val = PlusZero
  /\ total = 0
  /\ start = NotYet
  /\ CommIdle
  /\ RunIdle

ParseNum ==
  /\ parsed = NotYet
  /\ parsed' = Returned(parse_num(val))
  /\ UNCHANGED << val, take_val, total, start, commvars, runvars >>

SpecParse == InitParse /\ [][ParseNum]_vars

\* ----------------------------------------- get_start_index on its own
InitResolve ==
  /\ take_val \in TakeValue
  /\ total \in 0 .. I64_MAX
  /\ start = NotYet
  /\ val = << >>
  /\ parsed = NotYet
  /\ CommIdle
  /\ RunIdle

GetStartIndex ==
  /\ start = NotYet
  /\ start' = Returned(get_start_index(take_val, total))
  /\ UNCHANGED << val, parsed, take_val, total, commvars, runvars >>

SpecResolve == InitResolve /\ [][GetStartIndex]_vars

\* ------------------------------------------------------------- the program
\* tailr on one file: an offset token given as --lines or as --bytes
Init ==
  /\ CallIdle
  /\ \E tok \in RunTokens, mode \in {"lines", "bytes"}, q \in BOOLEAN :
       args = [lines |-> IF mode = "lines" THEN tok ELSE DefaultLines,
               bytes |-> IF mode = "bytes" THEN Some(tok) ELSE None,
               quiet |-> q]
  /\ fs \in {<< f >> : f \in FileEntries("f1")}
  /\ config = NotYet
  /\ pc = "get_args"
  /\ file_num = 1
  /\ cnt = [pos |-> 0, lines |-> 0, bytes |-> 0]
  /\ totals = [lines |-> 0, bytes |-> 0]
  /\ ext = [pos |-> 0, lines |-> 0, start_index |-> 0]
  /\ stdout = << >>
  /\ stderr = << >>
  /\ result = NotYet

\* `?` in run: the error leaves run at once
Fail(e) ==
  /\ result' = Returned(Err(e))
  /\ pc' = "exit"

\* the end of the loop body: on to the next file
NextFile ==
  /\ file_num' = file_num + 1
  /\ pc' = "open"

\* get_args: both options parsed with parse_num, --lines first
GetArgs ==
  /\ pc = "get_args"
  /\ LET l == parse_num(args.lines)
         b == IF args.bytes = None THEN Ok(None)
              ELSE LET r == parse_num(args.bytes[1])
                   IN  IF r.ok THEN Ok(Some(r.val)) ELSE r
     IN  IF ~l.ok THEN
           /\ Fail(<< "illegal line count -- " >> \o l.err)
           /\ UNCHANGED config
         ELSE IF ~b.ok THEN
           /\ Fail(<< "illegal byte count -- " >> \o b.err)
           /\ UNCHANGED config
         ELSE
           /\ config' = Returned([lines |-> l.val, bytes |-> b.val, quiet |-> args.quiet])
           /\ pc' = "open"
           /\ UNCHANGED result
  /\ UNCHANGED << callvars, args, fs, file_num, cnt, totals, ext, stdout, stderr >>

\* the header println! of run
Header(i, name) ==
  (IF i > 1 THEN << "LF" >> ELSE << >>) \o << "==> ", name, " <==", "LF" >>

\* faulty variant of RunOpen: a file that cannot be opened ends run with the
\* error, as with `?`
RunOpen_propagate ==
  /\ pc = "open"
  /\ file_num <= Len(fs)
  /\ LET f == fs[file_num]
     IN  IF f.kind = "missing" THEN
           /\ Fail(<< "NotFound" >>)
           /\ UNCHANGED << stdout, stderr, cnt, file_num >>
         ELSE
           /\ stdout' = IF ~config[1].quiet /\ Len(fs) > 1
                          THEN stdout \o Header(file_num, f.name) ELSE stdout
           /\ cnt' = [pos |-> 0, lines |-> 0, bytes |-> 0]
           /\ pc' = "count"
           /\ UNCHANGED << stderr, file_num, result >>
  /\ UNCHANGED << callvars, args, fs, config, totals, ext >>

\* run, top of the loop body: File::open; on Err the name is reported and
\* the loop goes on; on Ok the header is printed when there are several
\* files, and count_lines_bytes opens the file by name
RunOpen ==
  /\ pc = "open"
  /\ file_num <= Len(fs)
  /\ LET f == fs[file_num]
     IN  IF f.kind = "missing" THEN
           /\ stderr' = Append(stderr, f.name)
           /\ NextFile
           /\ UNCHANGED << stdout, cnt, result >>
         ELSE
           /\ stdout' = IF ~config[1].quiet /\ Len(fs) > 1
                          THEN stdout \o Header(file_num, f.name) ELSE stdout
           /\ cnt' = [pos |-> 0, lines |-> 0, bytes |-> 0]
           /\ pc' = "count"
           /\ UNCHANGED << stderr, file_num, result >>
  /\ UNCHANGED << callvars, args, fs, config, totals, ext >>

\* run, after the last file
RunReturn ==
  /\ pc = "open"
  /\ file_num > Len(fs)
  /\ result' = Returned(Ok(Unit))
  /\ pc' = "exit"
  /\ UNCHANGED << callvars, args, fs, config, file_num, cnt, totals, ext, stdout, stderr >>

\* faulty variant of CountLinesBytes: the end-of-line marker is not counted
\* in the bytes
CountLinesBytes_trimmed ==
  /\ pc = "count"
  /\ LET r == read_line(fs[file_num], cnt.pos)
     IN  IF ~r.ok THEN
           /\ Fail(r.err)
           /\ UNCHANGED << cnt, totals >>
         ELSE IF r.val.bs = 0 THEN
           /\ totals' = [lines |-> cnt.lines, bytes |-> cnt.bytes]
           /\ pc' = "extract"
           /\ UNCHANGED << cnt, result >>
         ELSE
           /\ cnt' = [pos |-> cnt.pos + r.val.bs,
                      lines |-> WrapI64(cnt.lines + 1),
                      bytes |-> WrapI64(cnt.bytes + r.val.bs
                                  - (IF r.val.line[r.val.bs] = "LF" THEN 1 ELSE 0))]
           /\ UNCHANGED << totals, pc, result >>
  /\ UNCHANGED << callvars, args, fs, config, file_num, ext, stdout, stderr >>

\* count_lines_bytes: one turn of its loop
CountLinesBytes ==
  /\ pc = "count"
  /\ LET r == read_line(fs[file_num], cnt.pos)
     IN  IF ~r.ok THEN
           /\ Fail(r.err)
           /\ UNCHANGED << cnt, totals >>
         ELSE IF r.val.bs = 0 THEN
           /\ totals' = [lines |-> cnt.lines, bytes |-> cnt.bytes]
           /\ pc' = "extract"
           /\ UNCHANGED << cnt, result >>
         ELSE
           /\ cnt' = [pos |-> cnt.pos + r.val.bs,
                      lines |-> WrapI64(cnt.lines + 1),
                      bytes |-> WrapI64(cnt.bytes + r.val.bs)]
           /\ UNCHANGED << totals, pc, result >>
  /\ UNCHANGED << callvars, args, fs, config, file_num, ext, stdout, stderr >>

\* print_bytes: seek to the start index, read to the end, print the
\* lossy decoding of what was read
PrintBytes ==
  /\ pc = "extract"
  /\ config[1].bytes # None
  /\ LET s == get_start_index(config[1].bytes[1], totals.bytes)
         r == read_from(fs[file_num], s[1])
     IN  IF s = None THEN
           /\ NextFile
           /\ UNCHANGED << stdout, result >>
         ELSE IF ~r.ok THEN
           /\ Fail(r.err)
           /\ UNCHANGED << stdout, file_num >>
         ELSE
           /\ stdout' = IF r.val # << >> THEN stdout \o from_utf8_lossy(r.val) ELSE stdout
           /\ NextFile
           /\ UNCHANGED result
  /\ UNCHANGED << callvars, args, fs, config, cnt, totals, ext, stderr >>

\* print_lines, before its loop: the start index is resolved
PrintLinesBegin ==
  /\ pc = "extract"
  /\ config[1].bytes = None
  /\ LET s == get_start_index(config[1].lines, totals.lines)
     IN  IF s = None THEN
           /\ NextFile
           /\ UNCHANGED ext
         ELSE
           /\ ext' = [pos |-> 0, lines |-> 0, start_index |-> s[1]]
           /\ pc' = "print_lines"
           /\ UNCHANGED file_num
  /\ UNCHANGED << callvars, args, fs, config, cnt, totals, stdout, stderr, result >>

\* faulty variant of Emits: the line at the start index itself is skipped
Emits_gt(lines, start_index) == lines > start_index

\* print_lines: whether the line numbered `lines` is printed
Emits(lines, start_index) == lines >= start_index

\* faulty variant of Printed: the line is printed as by println! on a line
\* stripped of its end-of-line marker
Printed_println(line) ==
  (IF line # << >> /\ line[Len(line)] = "LF"
     THEN SubSeq(line, 1, Len(line) - 1) ELSE line) \o << "LF" >>

\* print_lines: what print!("{}", line) writes
Printed(line) == line

\* faulty variant of PrintLines: an end of input before the start index is
\* reached is an error
PrintLines_strict ==
  /\ pc = "print_lines"
  /\ LET r == read_line(fs[file_num], ext.pos)
     IN  IF ~r.ok THEN
           /\ Fail(r.err)
           /\ UNCHANGED << ext, stdout, file_num >>
         ELSE IF r.val.bs = 0 /\ ext.lines < ext.start_index THEN
           /\ Fail(<< "UnexpectedEof" >>)
           /\ UNCHANGED << ext, stdout, file_num >>
         ELSE IF r.val.bs = 0 THEN
           /\ NextFile
           /\ UNCHANGED << ext, stdout, result >>
         ELSE
           /\ stdout' = IF Emits(ext.lines, ext.start_index)
                          THEN stdout \o Printed(r.val.line) ELSE stdout
           /\ ext' = [ext EXCEPT !.pos = ext.pos + r.val.bs,
                                 !.lines = AsU64(ext.lines + 1)]
           /\ UNCHANGED << pc, file_num, result >>
  /\ UNCHANGED << callvars, args, fs, config, cnt, totals, stderr >>

\* print_lines: one turn of its loop
PrintLines ==
  /\ pc = "print_lines"
  /\ LET r == read_line(fs[file_num], ext.pos)
     IN  IF ~r.ok THEN
           /\ Fail(r.err)
           /\ UNCHANGED << ext, stdout, file_num >>
         ELSE IF r.val.bs = 0 THEN
           /\ NextFile
           /\ UNCHANGED << ext, stdout, result >>
         ELSE
           /\ stdout' = IF Emits(ext.lines, ext.start_index)
                          THEN stdout \o Printed(r.val.line) ELSE stdout
           /\ ext' = [ext EXCEPT !.pos = ext.pos + r.val.bs,
                                 !.lines = AsU64(ext.lines + 1)]
           /\ UNCHANGED << pc, file_num, result >>
  /\ UNCHANGED << callvars, args, fs, config, cnt, totals, stderr >>

Next ==
  \/ GetArgs
  \/ RunOpen
  \/ RunReturn
  \/ CountLinesBytes
  \/ PrintBytes
  \/ PrintLinesBegin
  \/ PrintLines

Spec == Init /\ [][Next]_vars

\* ------------------------------------------------ print_lines on its own
\* print_lines called on an open file with any offset and any total_lines,
\* whatever the number of lines of the file is; when it returns Ok the
\* caller returns
InitPrintLines ==
  /\ CallIdle
  /\ args = [lines |-> DefaultLines, bytes |-> None, quiet |-> FALSE]
  /\ fs \in {<< f >> : f \in {g \in FileEntries("f1") : g.kind # "missing"}}
  /\ \E tv \in {PlusZero} \cup {TakeNum(n) : n \in (0 - MaxCount) .. MaxCount} :
       config = Returned([lines |-> tv, bytes |-> None, quiet |-> FALSE])
  /\ pc = "extract"
  /\ file_num = 1
  /\ cnt = [pos |-> 0, lines |-> 0, bytes |-> 0]
  /\ \E n \in 0 .. MaxCount : totals = [lines |-> n, bytes |-> 0]
  /\ ext = [pos |-> 0, lines |-> 0, start_index |-> 0]
  /\ stdout = << >>
  /\ stderr = << >>
  /\ result = NotYet

NextPrintLines ==
  \/ PrintLinesBegin
  \/ PrintLines
  \/ RunReturn

\* the program is sequential: a step that can be taken is taken
SpecPrintLines ==
  InitPrintLines /\ [][NextPrintLines]_vars /\ WF_vars(NextPrintLines)

\* ------------------------------------------------ the program, three files
\* the names given on the command line
FileNames == << "f1", "f2", "f3" >>

\* what a name may be: an empty file, texts with and without a final
\* end-of-line marker, a file of malformed bytes, a directory, a name that
\* cannot be opened
SomeEntries(name) ==
  {[name |-> name, kind |-> "file", data |-> d] :
      d \in {<< >>, << "a", "LF" >>, << "LF", "a" >>, << "A9", "LF" >>}}
    \cup {[name |-> name, kind |-> k, data |-> << >>] : k \in {"dir", "missing"}}

InitFiles ==
  /\ CallIdle
  /\ \E tok \in RunTokens, mode \in {"lines", "bytes"}, q \in BOOLEAN :
       args = [lines |-> IF mode = "lines" THEN tok ELSE DefaultLines,
               bytes |-> IF mode = "bytes" THEN Some(tok) ELSE None,
               quiet |-> q]
  /\ fs \in {f \in [1 .. Len(FileNames) -> UNION {SomeEntries(FileNames[i]) : i \in 1 .. Len(FileNames)}] :
                \A i \in 1 .. Len(FileNames) : f[i].name = FileNames[i]}
  /\ config = NotYet
  /\ pc = "get_args"
  /\ file_num = 1
  /\ cnt = [pos |-> 0, lines |-> 0, bytes |-> 0]
  /\ totals = [lines |-> 0, bytes |-> 0]
  /\ ext = [pos |-> 0, lines |-> 0, start_index |-> 0]
  /\ stdout = << >>
  /\ stderr = << >>
  /\ result = NotYet

SpecFiles == InitFiles /\ [][Next]_vars

\* ------------------------------------------------------------ commr: run
\* an input that opens, with its lines
Input(name, ls) == [name |-> name, opens |-> TRUE, lines |-> ls]

\* commr on two inputs whose lines, as compared, are sorted; or on a name
\* that cannot be opened; or on standard input given twice
InitComm ==
  /\ val = << >> /\ parsed = NotYet /\ take_val = PlusZero /\ total = 0 /\ start = NotYet
  /\ RunIdle
  /\ c_config \in [show_col1 : BOOLEAN, show_col2 : BOOLEAN, show_col3 : BOOLEAN,
                   insensitive : BOOLEAN, delimiter : {"TAB"}]
  /\ \/ \E l1 \in SeqsUpTo(LineSet, MaxLines), l2 \in SeqsUpTo(LineSet, MaxLines) :
          /\ IsSorted(CaseAll(c_config.insensitive, l1))
          /\ IsSorted(CaseAll(c_config.insensitive, l2))
          /\ c_files = [file1 |-> Input("f1", l1), file2 |-> Input("f2", l2)]
     \/ c_files = [file1 |-> Input("-", << >>), file2 |-> Input("-", << >>)]
     \/ \E o1 \in BOOLEAN :
          c_files = [file1 |-> [name |-> "f1", opens |-> o1, lines |-> << >>],
                     file2 |-> [name |-> "f2", opens |-> FALSE, lines |-> << >>]]
  /\ c_iter = [lines1 |-> << >>, lines2 |-> << >>, line1 |-> None, line2 |-> None]
  /\ c_cols = << >>
  /\ c_out = << >>
  /\ c_loops = 0
  /\ c_pc = "run"
  /\ c_result = NotYet

\* run up to the loop: the check of the names, the two opens, the first
\* line of each input
CommBegin ==
  /\ c_pc = "run"
  /\ IF c_files.file1.name = "-" /\ c_files.file2.name = "-" THEN
       /\ c_result' = Returned(Err(<< "Both input files cannot be STDIN" >>))
       /\ c_pc' = "exit"
       /\ UNCHANGED c_iter
     ELSE IF ~c_files.file1.opens THEN
       /\ c_result' = Returned(Err(<< c_files.file1.name >>))
       /\ c_pc' = "exit"
       /\ UNCHANGED c_iter
     ELSE IF ~c_files.file2.opens THEN
       /\ c_result' = Returned(Err(<< c_files.file2.name >>))
       /\ c_pc' = "exit"
       /\ UNCHANGED c_iter
     ELSE
       LET ls1 == CaseAll(c_config.insensitive, c_files.file1.lines)
           ls2 == CaseAll(c_config.insensitive, c_files.file2.lines)
       IN  /\ c_iter' = [lines1 |-> Rest(ls1), lines2 |-> Rest(ls2),
                         line1 |-> NextLine(ls1), line2 |-> NextLine(ls2)]
           /\ c_pc' = "loop"
           /\ UNCHANGED c_result
  /\ UNCHANGED << val, parsed, take_val, total, start, runvars,
                  c_config, c_files, c_cols, c_out, c_loops >>

\* line1 = lines1.next()
Advance1(it) == [it EXCEPT !.line1 = NextLine(it.lines1), !.lines1 = Rest(it.lines1)]

\* line2 = lines2.next()
Advance2(it) == [it EXCEPT !.line2 = NextLine(it.lines2), !.lines2 = Rest(it.lines2)]

\* faulty variant of Turn: on equal lines only the first input moves on
Turn_keep2(it) ==
  IF it.line1 # None /\ it.line2 # None THEN
    LET o == Cmp(it.line1[1], it.line2[1])
    IN  IF o = "Equal" THEN [c |-> Col(3, it.line1[1]), it |-> Advance1(it)]
        ELSE IF o = "Less" THEN [c |-> Col(1, it.line1[1]), it |-> Advance1(it)]
        ELSE [c |-> Col(2, it.line2[1]), it |-> Advance2(it)]
  ELSE IF it.line1 # None THEN [c |-> Col(1, it.line1[1]), it |-> Advance1(it)]
  ELSE [c |-> Col(2, it.line2[1]), it |-> Advance2(it)]

\* what one turn of the loop does: the column printed, the iterators after
Turn(it) ==
  IF it.line1 # None /\ it.line2 # None THEN
    LET o == Cmp(it.line1[1], it.line2[1])
    IN  IF o = "Equal" THEN [c |-> Col(3, it.line1[1]), it |-> Advance2(Advance1(it))]
        ELSE IF o = "Less" THEN [c |-> Col(1, it.line1[1]), it |-> Advance1(it)]
        ELSE [c |-> Col(2, it.line2[1]), it |-> Advance2(it)]
  ELSE IF it.line1 # None THEN [c |-> Col(1, it.line1[1]), it |-> Advance1(it)]
  ELSE [c |-> Col(2, it.line2[1]), it |-> Advance2(it)]

\* one turn of the while loop
CommStep ==
  /\ c_pc = "loop"
  /\ ~(c_iter.line1 = None /\ c_iter.line2 = None)
  /\ LET t == Turn(c_iter)
     IN  /\ c_cols' = Append(c_cols, t.c)
         /\ c_out' = PrintCol(c_config, c_out, t.c)
         /\ c_iter' = t.it
  /\ c_loops' = c_loops + 1
  /\ UNCHANGED << val, parsed, take_val, total, start, runvars,
                  c_config, c_files, c_pc, c_result >>

\* the loop is left, run returns Ok(())
CommReturn ==
  /\ c_pc = "loop"
  /\ c_iter.line1 = None /\ c_iter.line2 = None
  /\ c_result' = Returned(Ok(Unit))
  /\ c_pc' = "exit"
  /\ UNCHANGED << val, parsed, take_val, total, start, runvars,
                  c_config, c_files, c_iter, c_cols, c_out, c_loops >>

NextComm ==
  \/ CommBegin
  \/ CommStep
  \/ CommReturn

\* the program is sequential: a step that can be taken is taken
SpecComm == InitComm /\ [][NextComm]_vars /\ WF_vars(NextComm)

\* ------------------------------------------------- get_start_index: claims
IsTakeNum(tv) == tv # PlusZero

\* C1: for TakeNum(k) with k >= 1 and total >= 0 the result is None when
\* k > total and Some(k-1) when 1 <= k <= total (k = total gives Some(total-1)).
C1_PositiveCount ==
  (start # NotYet /\ IsTakeNum(take_val) /\ take_val.n >= 1) =>
     /\ (take_val.n > total => start[1] = None)
     /\ (take_val.n <= total => start[1] = Some(take_val.n - 1))
     /\ (take_val.n = total => start[1] = Some(total - 1))

C1_Witness ==
  /\ start # NotYet /\ IsTakeNum(take_val)
  /\ total >= 2 /\ take_val.n = total /\ start[1] = Some(total - 1)

\* C2: for TakeNum(n) with n < 0 and total >= 0 the result is Some(0) when
\* total + n < 0 and Some(total + n) otherwise (Some(0) at total + n = 0);
\* it is never None.
C2_NegativeCount ==
  (start # NotYet /\ IsTakeNum(take_val) /\ take_val.n < 0) =>
     /\ start[1] # None
     /\ (total + take_val.n < 0 => start[1] = Some(0))
     /\ (total + take_val.n >= 0 => start[1] = Some(total + take_val.n))
     /\ (total + take_val.n = 0 => start[1] = Some(0))

C2_Witness ==
  /\ start # NotYet /\ IsTakeNum(take_val)
  /\ take_val.n = I64_MIN /\ total = I64_MAX /\ start[1] = Some(0)

\* C3: TakeNum(0) resolves to None for every total, empty or not.
C3_ZeroCount ==
  (start # NotYet /\ take_val = TakeNum(0)) => start[1] = None

C3_Witness ==
  start # NotYet /\ take_val = TakeNum(0) /\ total > 0 /\ start[1] = None

\* C4: PlusZero resolves to None when total = 0 and to Some(0) for every
\* total > 0.
C4_PlusZero ==
  (start # NotYet /\ take_val = PlusZero) =>
     start[1] = (IF total = 0 THEN None ELSE Some(0))

C4_Witness ==
  start # NotYet /\ take_val = PlusZero /\ total = 0 /\ start[1] = None

\* ------------------------------------------------------- parse_num: claims
\* The written form of a token, read off its characters (not through
\* ParseI64): its sign, the text after the sign, and the magnitude that
\* text denotes in base 10.
SignOf(tok) == IF tok # << >> /\ Head(tok) \in {"+", "-"} THEN Head(tok) ELSE ""

BodyOf(tok) == IF SignOf(tok) = "" THEN tok ELSE Tail(tok)

IsInteger(tok) ==
  /\ BodyOf(tok) # << >>
  /\ \A i \in 1 .. Len(BodyOf(tok)) : IsDigit(BodyOf(tok)[i])

RECURSIVE DecimalValue(_)
DecimalValue(ds) ==
  IF ds = << >> THEN 0
  ELSE DecimalValue(SubSeq(ds, 1, Len(ds) - 1)) * 10 + DigitVal(ds[Len(ds)])

Magnitude(tok) == DecimalValue(BodyOf(tok))

\* the token denotes an integer of the i64 range
IsValidInteger(tok) ==
  /\ IsInteger(tok)
  /\ IF SignOf(tok) = "-" THEN 0 - Magnitude(tok) >= I64_MIN
                          ELSE Magnitude(tok) <= I64_MAX

\* C5: a valid integer token is classified by its written sign and its
\* magnitude m: '+' and m = 0 give PlusZero, '+' and m > 0 give TakeNum(m),
\* '-' gives TakeNum(-m), no sign gives TakeNum(-m); so "0" and "-0" give
\* TakeNum(0) and "5" and "-5" both give TakeNum(-5).
C5_Classify ==
  (parsed # NotYet /\ IsValidInteger(val)) =>
     /\ parsed[1].ok
     /\ (SignOf(val) = "+" /\ Magnitude(val) = 0 => parsed[1].val = PlusZero)
     /\ (SignOf(val) = "+" /\ Magnitude(val) > 0 => parsed[1].val = TakeNum(Magnitude(val)))
     /\ (SignOf(val) = "-" => parsed[1].val = TakeNum(0 - Magnitude(val)))
     /\ (SignOf(val) = "" => parsed[1].val = TakeNum(0 - Magnitude(val)))
     /\ (val \in {<< "0" >>, << "-", "0" >>} => parsed[1].val = TakeNum(0))
     /\ (val \in {<< "5" >>, << "-", "5" >>} => parsed[1].val = TakeNum(0 - 5))

C5_Witness ==
  parsed # NotYet /\ val = << "5" >> /\ parsed[1] = Ok(TakeNum(0 - 5))

\* C6 as stated: the unsigned token of magnitude i64::MAX gives
\* TakeNum(i64::MIN).
C6_SaturatesToMin ==
  (parsed # NotYet /\ val = to_string(I64_MAX)) => parsed[1] = Ok(TakeNum(I64_MIN))

\* C6 as amended: the unsigned token of magnitude i64::MAX gives
\* TakeNum(-i64::MAX), which is i64::MIN + 1; the negation of a positive
\* i64 never overflows, and TakeNum(i64::MIN) comes only from a token
\* written with '-'.
C6_NegatesExactly ==
  /\ (parsed # NotYet /\ val = to_string(I64_MAX)) =>
        parsed[1] = Ok(TakeNum(I64_MIN + 1))
  /\ (parsed # NotYet /\ parsed[1].ok /\ parsed[1].val = TakeNum(I64_MIN)) =>
        SignOf(val) = "-"

C6_Witness ==
  /\ parsed # NotYet /\ val = to_string(I64_MAX)
  /\ parsed[1] = Ok(TakeNum(0 - I64_MAX))

\* C7: a token that is not a base-10 signed integer (3.14, foo) gives an
\* error whose message is the token itself, never a TakeValue.
C7_MalformedToken ==
  (parsed # NotYet /\ ~IsInteger(val)) =>
     /\ ~parsed[1].ok
     /\ parsed[1].err = val

C7_Witness ==
  /\ parsed # NotYet /\ val = << "3", ".", "1", "4" >>
  /\ ~parsed[1].ok /\ parsed[1].err = val

\* ------------------------------------------------------------- run: claims
\* The lines of a text, each with its end-of-line marker, the last one
\* possibly without: the text cut after every "LF".
RECURSIVE SplitLines(_)
SplitLines(d) ==
  IF d = << >> THEN << >>
  ELSE LET cut == IF \E i \in 1 .. Len(d) : d[i] = "LF"
                    THEN CHOOSE i \in 1 .. Len(d) :
                           d[i] = "LF" /\ \A j \in 1 .. i - 1 : d[j] # "LF"
                    ELSE Len(d)
       IN  << SubSeq(d, 1, cut) >> \o SplitLines(SubSeq(d, cut + 1, Len(d)))

RECURSIVE Flatten(_)
Flatten(ss) == IF ss = << >> THEN << >> ELSE Head(ss) \o Flatten(Tail(ss))

Min(a, b) == IF a < b THEN a ELSE b

\* the last n elements of s
LastN(s, n) == SubSeq(s, Len(s) - n + 1, Len(s))

\* the file of the run is a regular file of well-formed text
IsTextFile(f) == f.kind = "file" /\ Utf8Valid(f.data)

\* the run is over, and its offset token was accepted by get_args
Finished == pc = "exit" /\ config # NotYet

\* C8: line mode end to end on a text file of L lines: the run succeeds
\* and prints exactly the lines at 0-based positions >= the resolved
\* start, in order and verbatim, nothing when the start is None; so "-k"
\* and bare "k" print the last min(k, L) lines, "+k" with 1 <= k <= L prints
\* lines k..L (1-based), "0" prints nothing, "+0" on an empty file nothing.
C8_LineMode ==
  (Finished /\ args.bytes = None /\ IsTextFile(fs[1])) =>
     LET lines == SplitLines(fs[1].data)
         L == Len(lines)
         s == get_start_index(config[1].lines, L)
     IN  /\ result = Returned(Ok(Unit))
         /\ stdout = (IF s = None THEN << >> ELSE Flatten(SubSeq(lines, s[1] + 1, L)))
         /\ \A k \in 0 .. MaxCount :
              /\ args.lines \in {to_string(k), << "-" >> \o to_string(k)} =>
                    stdout = Flatten(LastN(lines, Min(k, L)))
              /\ (args.lines = << "+" >> \o to_string(k) /\ 1 <= k /\ k <= L) =>
                    stdout = Flatten(SubSeq(lines, k, L))
         /\ (args.lines = << "0" >> => stdout = << >>)
         /\ (args.lines = << "+", "0" >> /\ fs[1].data = << >> => stdout = << >>)

C8_Witness ==
  /\ Finished /\ args.bytes = None /\ args.lines = << "-", "2" >>
  /\ fs[1].data = << "a", "LF", "LF", "a" >>
  /\ stdout = << "LF", "a" >>

C10_WholeInput ==
  ( /\ Finished /\ args.bytes = None /\ IsTextFile(fs[1])
    /\ get_start_index(config[1].lines, totals.lines) = Some(0) ) =>
     stdout = fs[1].data

C10_Witness ==
  /\ Finished /\ args.bytes = None /\ args.lines = << "+", "1" >>
  /\ fs[1].data = << "a", "LF", "C3", "A9" >>
  /\ totals.lines = 2
  /\ stdout = fs[1].data

\* C12 as stated: in byte mode a regular file is measured and extracted
\* whatever its bytes are: the run returns Ok and prints the lenient
\* decoding of the bytes from the resolved start on.
C12_MalformedTolerated ==
  (Finished /\ args.bytes # None /\ fs[1].kind = "file") =>
     LET data == fs[1].data
         s == get_start_index(config[1].bytes[1], Len(data))
     IN  /\ result = Returned(Ok(Unit))
         /\ stdout = (IF s = None THEN << >>
                      ELSE from_utf8_lossy(SubSeq(data, s[1] + 1, Len(data))))

\* C14: count_lines_bytes returns the number of line-delimited records and
\* the sum of their lengths with the end-of-line markers, which is the
\* length of the input; a last record without marker is one line; an empty
\* input gives (0, 0).
C14_Measure ==
  (pc = "extract") =>
     /\ totals.lines = Len(SplitLines(fs[file_num].data))
     /\ totals.bytes = Len(Flatten(SplitLines(fs[file_num].data)))
     /\ totals.bytes = Len(fs[file_num].data)
     /\ (fs[file_num].data = << >> => totals = [lines |-> 0, bytes |-> 0])

C14_Witness ==
  /\ pc = "extract"
  /\ fs[file_num].data = << "a", "LF", "LF", "a" >>
  /\ totals = [lines |-> 3, bytes |-> 4]

\* C16: a start index Some(i) resolved against total >= 0 lies within the
\* extent: 0 <= i <= total, and i < total when total > 0.
C16_StartWithinExtent ==
  (start # NotYet /\ start[1] # None) =>
     /\ 0 <= start[1][1]
     /\ start[1][1] <= total
     /\ (total > 0 => start[1][1] < total)

C16_Witness ==
  /\ start # NotYet /\ start[1] = Some(0)
  /\ total = 0 /\ take_val = TakeNum(I64_MIN)

\* ------------------------------------------------ run on several files
\* what the run is to print for the file at index i of the command line
\* when that file is a text: its header, when there are several files and
\* no --quiet, then the lines, or the decoded bytes, from the start on
FileOutput(i) ==
  LET f == fs[i]
      lines == SplitLines(f.data)
      hdr == IF ~config[1].quiet /\ Len(fs) > 1 THEN Header(i, f.name) ELSE << >>
      s == IF config[1].bytes = None
             THEN get_start_index(config[1].lines, Len(lines))
             ELSE get_start_index(config[1].bytes[1], Len(f.data))
      body == IF s = None THEN << >>
              ELSE IF config[1].bytes = None
                THEN Flatten(SubSeq(lines, s[1] + 1, Len(lines)))
                ELSE from_utf8_lossy(SubSeq(f.data, s[1] + 1, Len(f.data)))
  IN  hdr \o body

\* a occurs in b as a run of consecutive elements
IsSegment(a, b) ==
  \E k \in 0 .. Len(b) : k + Len(a) <= Len(b) /\ SubSeq(b, k + 1, k + Len(a)) = a

\* C11 as stated: a read error on one file ends the processing of that file
\* only: the loop goes on to the next file, so run ends only after the last
\* file, and every text file after the failing one has its output printed.
C11_ReadErrorSkipsOneFile ==
  Finished =>
     /\ file_num > Len(fs)
     /\ \A i \in 1 .. Len(fs) :
          (IsTextFile(fs[i]) /\ \E j \in 1 .. i - 1 : fs[j].kind = "dir") =>
             IsSegment(FileOutput(i), stdout)

RECURSIVE OutputUpTo(_)
OutputUpTo(i) ==
  IF i = 0 THEN << >>
  ELSE OutputUpTo(i - 1) \o (IF fs[i].kind = "missing" THEN << >> ELSE FileOutput(i))

RECURSIVE MissingUpTo(_)
MissingUpTo(i) ==
  IF i = 0 THEN << >>
  ELSE MissingUpTo(i - 1) \o (IF fs[i].kind = "missing" THEN << fs[i].name >> ELSE << >>)

\* C13: a file that cannot be opened is reported and skipped: on a command
\* line of texts and names that cannot be opened, run returns Ok, each such
\* name is reported once, in order, and every text, before or after it,
\* has its output printed, in order.
C13_OpenFailureSkipped ==
  (Finished /\ \A i \in 1 .. Len(fs) : fs[i].kind = "missing" \/ IsTextFile(fs[i])) =>
     /\ result = Returned(Ok(Unit))
     /\ stderr = MissingUpTo(Len(fs))
     /\ stdout = OutputUpTo(Len(fs))

C13_Witness ==
  /\ Finished /\ Len(fs) = 3
  /\ fs[1].data = << "a", "LF" >> /\ fs[2].kind = "missing" /\ fs[3].data = << "LF", "a" >>
  /\ args.lines = << "1" >> /\ args.bytes = None /\ args.quiet
  /\ result = Returned(Ok(Unit))
  /\ stderr = << "f2" >>
  /\ stdout = << "a", "LF", "a" >>

\* ------------------------------------------------ print_lines: claims
\* C15: print_lines ends on every finite source, and on a text it ends
\* without error, also when the resolved start is beyond the lines read
\* (total_lines larger than the file's line count): then nothing is
\* printed and Ok is returned.
C15_PrintLinesEnds ==
  /\ <>(pc = "exit")
  /\ []((pc = "exit" /\ IsTextFile(fs[1])) =>
          LET s == get_start_index(config[1].lines, totals.lines)
          IN  /\ result = Returned(Ok(Unit))
              /\ (s # None /\ s[1] >= Len(SplitLines(fs[1].data))) => stdout = << >>)

C15_Witness ==
  /\ pc = "exit" /\ result = Returned(Ok(Unit))
  /\ fs[1].data = << "a", "LF", "a" >>
  /\ config[1].lines = TakeNum(4) /\ totals.lines = 5
  /\ ext.start_index = 3 /\ ext.lines = 2
  /\ stdout = << >>

\* ------------------------------------------------------------ commr: claims
\* the values given to print for the columns of S, in order
RECURSIVE ColVals(_, _)
ColVals(cols, S) ==
  IF cols = << >> THEN << >>
  ELSE (IF Head(cols).col \in S THEN << Head(cols).val >> ELSE << >>)
         \o ColVals(Tail(cols), S)

\* how many times x occurs in ls
Count(ls, x) == Cardinality({i \in 1 .. Len(ls) : ls[i] = x})

\* the lines of the two inputs as the loop compares them
Lines1 == CaseAll(c_config.insensitive, c_files.file1.lines)

Lines2 == CaseAll(c_config.insensitive, c_files.file2.lines)

\* the lines not yet classified: the current one and what the iterator holds
Pending1 == c_iter.line1 \o c_iter.lines1

Pending2 == c_iter.line2 \o c_iter.lines2

InLoop == c_pc = "loop" \/ (c_pc = "exit" /\ c_result = Returned(Ok(Unit)))

\* C17: on two finite sorted inputs the merge loop ends, after at most
\* len1 + len2 turns; each line of each input is consumed once, in order;
\* equal current lines go to column 3 and both inputs move on, the smaller
\* current line goes to column 1 (input 1) or column 2 (input 2); at the
\* end column 3 is the multiset intersection of the inputs and columns 1
\* and 2 are the multiset differences.
C17_Merge ==
  /\ <>(c_pc = "exit")
  /\ [](InLoop =>
          /\ c_loops <= Len(Lines1) + Len(Lines2)
          /\ c_loops = Len(c_cols)
          /\ ColVals(c_cols, {1, 3}) \o Pending1 = Lines1
          /\ ColVals(c_cols, {2, 3}) \o Pending2 = Lines2)
  /\ []((c_pc = "exit" /\ c_result = Returned(Ok(Unit))) =>
          \A x \in LineSet :
             LET both == Min(Count(Lines1, x), Count(Lines2, x))
             IN  /\ Count(ColVals(c_cols, {3}), x) = both
                 /\ Count(ColVals(c_cols, {1}), x) = Count(Lines1, x) - both
                 /\ Count(ColVals(c_cols, {2}), x) = Count(Lines2, x) - both)
  /\ [][(c_pc = "loop" /\ c_loops' = c_loops + 1
           /\ c_iter.line1 # None /\ c_iter.line2 # None) =>
          LET o == Cmp(c_iter.line1[1], c_iter.line2[1])
              c == c_cols'[Len(c_cols')]
          IN  /\ o = "Equal" => (c = Col(3, c_iter.line1[1])
                                  /\ Pending1' = Tail(Pending1)
                                  /\ Pending2' = Tail(Pending2))
              /\ o = "Less" => (c = Col(1, c_iter.line1[1]) /\ Pending2' = Pending2)
              /\ o = "Greater" => (c = Col(2, c_iter.line2[1]) /\ Pending1' = Pending1)]_vars

C17_Witness ==
  /\ c_pc = "exit" /\ c_result = Returned(Ok(Unit))
  /\ c_files.file1.lines = << << "a" >>, << "a" >>, << "a", "b" >> >>
  /\ c_files.file2.lines = << << "A" >>, << "a" >>, << "a", "b" >> >>
  /\ ~c_config.insensitive
  /\ c_cols = << Col(2, << "A" >>), Col(3, << "a" >>), Col(1, << "a" >>),
                 Col(3, << "a", "b" >>) >>
  /\ c_loops = 4

====
